---------------------------- MODULE Spec2Model ----------------------------
(***************************************************************************)
(* Model of scripts/update-baseline.js (class BaselineUpdater): the        *)
(* acceptance gate, the delta calculator, the bounded history, the trend   *)
(* analyzer and the run() orchestrator with its file reads and writes.     *)
(*                                                                         *)
(* Encoding of JavaScript values:                                          *)
(*   - an optional value (null / undefined / a missing file or field) is   *)
(*     a sequence of length 0 or 1: Null is <<>>, Some(v) is <<v>>;        *)
(*   - a metric of the snapshot (results.performance, .coverage,           *)
(*     .bundleSize) is [kind, val]: kind "absent" (null or missing),       *)
(*     "error" (an object without the numeric field, such as               *)
(*     {error: msg}) or "num" (an object whose numeric field is val);      *)
(*   - a JavaScript number that results from a division is a record        *)
(*     [kind, num, den]: kind "finite" is the exact quotient num/den       *)
(*     (den > 0), the other kinds are Infinity, -Infinity and NaN;         *)
(*   - a branch name is a sequence of one-character strings, so that       *)
(*     toLowerCase is computed character by character.                     *)
(***************************************************************************)
EXTENDS Integers, Sequences, FiniteSets, TLC

\* ------------------------------------------------------------------------
\* Bounds of the model
\* ------------------------------------------------------------------------

\* run() invocations per behaviour of Spec
MaxRuns == 3
\* run() invocations per behaviour of SpecGuard
MaxGuardRuns == 1
\* run() invocations per behaviour of SpecGate
MaxGateRuns == 1
\* run() invocations per behaviour of SpecTrend
MaxTrendRuns == 4

\* The executions of the script that may exist side by side.
Procs == {"A", "B"}

\* ------------------------------------------------------------------------
\* Values
\* ------------------------------------------------------------------------

Null == <<>>
Some(v) == <<v>>

Absent == [kind |-> "absent", val |-> 0]
ErrorObj == [kind |-> "error", val |-> 0]
Num(v) == [kind |-> "num", val |-> v]

Abs(x) == IF x < 0 THEN -x ELSE x

\* Math.round(num / den) for den > 0: the nearest integer, halves upwards.
MathRound(num, den) == (2 * num + den) \div (2 * den)

\* The JavaScript quotient num / den of two integers.
JsDivide(num, den) ==
    IF den = 0
    THEN [kind |-> IF num > 0 THEN "Infinity"
                   ELSE IF num < 0 THEN "-Infinity" ELSE "NaN",
          num |-> 0, den |-> 1]
    ELSE IF den < 0 THEN [kind |-> "finite", num |-> -num, den |-> -den]
    ELSE [kind |-> "finite", num |-> num, den |-> den]

\* JSON.stringify followed by JSON.parse of a number: a finite number comes
\* back as itself, Infinity, -Infinity and NaN are written as null.
JsonNumber(x) ==
    IF x.kind = "finite" THEN x ELSE [kind |-> "null", num |-> 0, den |-> 1]

UpperChars == <<"A", "B", "C", "D", "E", "F", "G", "H", "I", "J", "K", "L", "M",
                "N", "O", "P", "Q", "R", "S", "T", "U", "V", "W", "X", "Y", "Z">>
LowerChars == <<"a", "b", "c", "d", "e", "f", "g", "h", "i", "j", "k", "l", "m",
                "n", "o", "p", "q", "r", "s", "t", "u", "v", "w", "x", "y", "z">>

LowerChar(c) ==
    IF \E i \in DOMAIN UpperChars : UpperChars[i] = c
    THEN LowerChars[CHOOSE i \in DOMAIN UpperChars : UpperChars[i] = c]
    ELSE c

\* String.prototype.toLowerCase
ToLowerCase(s) == [i \in DOMAIN s |-> LowerChar(s[i])]

\* ------------------------------------------------------------------------
\* checkIfMainBranch and the constructor's event test
\* ------------------------------------------------------------------------

mainBranches == { <<"m", "a", "i", "n">>,
                  <<"m", "a", "s", "t", "e", "r">>,
                  <<"d", "e", "v", "e", "l", "o", "p">> }

\* env.GITHUB_REF_NAME is the branch name, <<>> when unset or empty.
checkIfMainBranch(env) == ToLowerCase(env.GITHUB_REF_NAME) \in mainBranches

\* env.GITHUB_EVENT_NAME is the event, "" when unset.
\* An event test that ignores the case of the first letter.
isMergeEventAnyCase(env) == env.GITHUB_EVENT_NAME \in {"push", "Push"}

isMergeEvent(env) == env.GITHUB_EVENT_NAME = "push"

\* ------------------------------------------------------------------------
\* isAcceptableForBaseline
\* ------------------------------------------------------------------------

criteria ==
    [performance |-> [min |-> 70, weight |-> 30],
     coverage    |-> [min |-> 60, weight |-> 40],
     bundleSize  |-> [maxKB |-> 1000, weight |-> 30]]

\* The gate's running totals before any metric is looked at.
GateStart == [score |-> 0, totalWeight |-> 0, issues |-> <<>>]

\* One issue string: its fixed text, the value printed in it and the limit.
Issue(text, value, limit) == [text |-> text, value |-> value, limit |-> limit]

\* A performance check with the comparison turned round.
CheckPerformanceReversed(results, g) ==
    IF results.performance.kind = "num"
    THEN LET perf == results.performance.val
             pass == perf <= criteria.performance.min
         IN [score |-> IF pass THEN g.score + criteria.performance.weight
                               ELSE g.score,
             totalWeight |-> g.totalWeight + criteria.performance.weight,
             issues |-> IF pass THEN g.issues
                        ELSE Append(g.issues,
                                    Issue("Performance too low", perf,
                                          criteria.performance.min))]
    ELSE g

CheckPerformance(results, g) ==
    IF results.performance.kind = "num"
    THEN LET perf == results.performance.val
             pass == perf >= criteria.performance.min
         IN [score |-> IF pass THEN g.score + criteria.performance.weight
                               ELSE g.score,
             totalWeight |-> g.totalWeight + criteria.performance.weight,
             issues |-> IF pass THEN g.issues
                        ELSE Append(g.issues,
                                    Issue("Performance too low", perf,
                                          criteria.performance.min))]
    ELSE g

\* A coverage check that counts the weight of a missing coverage metric.
CheckCoverageCountsAbsent(results, g) ==
    IF results.coverage.kind = "num"
    THEN LET cov == results.coverage.val
             pass == cov >= criteria.coverage.min
         IN [score |-> IF pass THEN g.score + criteria.coverage.weight
                               ELSE g.score,
             totalWeight |-> g.totalWeight + criteria.coverage.weight,
             issues |-> IF pass THEN g.issues
                        ELSE Append(g.issues,
                                    Issue("Coverage too low", cov,
                                          criteria.coverage.min))]
    ELSE [g EXCEPT !.totalWeight = @ + criteria.coverage.weight]

CheckCoverage(results, g) ==
    IF results.coverage.kind = "num"
    THEN LET cov == results.coverage.val
             pass == cov >= criteria.coverage.min
         IN [score |-> IF pass THEN g.score + criteria.coverage.weight
                               ELSE g.score,
             totalWeight |-> g.totalWeight + criteria.coverage.weight,
             issues |-> IF pass THEN g.issues
                        ELSE Append(g.issues,
                                    Issue("Coverage too low", cov,
                                          criteria.coverage.min))]
    ELSE g

CheckBundleSize(results, g) ==
    IF results.bundleSize.kind = "num"
    THEN LET sizeKB == MathRound(results.bundleSize.val, 1024)
             pass == sizeKB <= criteria.bundleSize.maxKB
         IN [score |-> IF pass THEN g.score + criteria.bundleSize.weight
                               ELSE g.score,
             totalWeight |-> g.totalWeight + criteria.bundleSize.weight,
             issues |-> IF pass THEN g.issues
                        ELSE Append(g.issues,
                                    Issue("Bundle too large", sizeKB,
                                          criteria.bundleSize.maxKB))]
    ELSE g

\* A gate that looks at coverage before performance.
GateTotalsCoverageFirst(results) ==
    CheckBundleSize(results,
        CheckPerformance(results, CheckCoverage(results, GateStart)))

\* The locals score, totalWeight and issues after the three checks.
GateTotals(results) ==
    CheckBundleSize(results,
        CheckCoverage(results, CheckPerformance(results, GateStart)))

\* A percentage that takes "no metric present" for "nothing failed".
GatePercentageVacuous(g) ==
    IF g.totalWeight > 0
    THEN [num |-> g.score * 100, den |-> g.totalWeight]
    ELSE [num |-> 100, den |-> 1]

\* percentage = totalWeight > 0 ? (score / totalWeight) * 100 : 0, kept as
\* the exact quotient num/den.
GatePercentage(g) ==
    IF g.totalWeight > 0
    THEN [num |-> g.score * 100, den |-> g.totalWeight]
    ELSE [num |-> 0, den |-> 1]

\* A cut-off that the percentage has to exceed.
GateAcceptableStrict(percentage) == percentage.num > 70 * percentage.den

\* acceptable: percentage >= 70.
GateAcceptable(percentage) == percentage.num >= 70 * percentage.den

isAcceptableForBaseline(results) ==
    LET g == GateTotals(results)
        percentage == GatePercentage(g)
    IN [acceptable |-> GateAcceptable(percentage),
        score |-> percentage,
        issues |-> g.issues]

\* ------------------------------------------------------------------------
\* calculateDelta
\* ------------------------------------------------------------------------

\* A percentage taken of the current value instead of the baseline's.
ChangePercentOfCurrent(current, baseline) ==
    LET q == JsDivide(current - baseline, current)
    IN IF q.kind = "finite" THEN [q EXCEPT !.num = q.num * 100] ELSE q

\* ((current - baseline) / baseline) * 100
ChangePercent(current, baseline) ==
    LET q == JsDivide(current - baseline, baseline)
    IN IF q.kind = "finite" THEN [q EXCEPT !.num = q.num * 100] ELSE q

\* A delta object that records the current value as its baseline.
MetricDeltaAgainstCurrent(current, baseline) ==
    [current |-> current,
     baseline |-> current,
     change |-> current - baseline,
     changePercent |-> ChangePercent(current, baseline)]

\* The delta object of one metric.
MetricDelta(current, baseline) ==
    [current |-> current,
     baseline |-> baseline,
     change |-> current - baseline,
     changePercent |-> ChangePercent(current, baseline)]

\* One of the three metric blocks: a delta when both sides hold a number.
DeltaOf(cur, base) ==
    IF cur.kind = "num" /\ base.kind = "num"
    THEN Some(MetricDelta(cur.val, base.val))
    ELSE Null

\* A calculator that returns an empty delta object when there is no
\* baseline.
calculateDeltaEmptyObject(current, baseline) ==
    IF baseline = Null
    THEN Some([performance |-> Null, coverage |-> Null, bundleSize |-> Null,
               timestamp |-> current.timestamp, commit |-> current.commit])
    ELSE LET b == baseline[1]
         IN Some([performance |-> DeltaOf(current.performance, b.performance),
                  coverage |-> DeltaOf(current.coverage, b.coverage),
                  bundleSize |-> DeltaOf(current.bundleSize, b.bundleSize),
                  timestamp |-> current.timestamp,
                  commit |-> current.commit])

\* baseline is Null (no baseline) or Some(the loaded baseline).
calculateDelta(current, baseline) ==
    IF baseline = Null THEN Null
    ELSE LET b == baseline[1]
         IN Some([performance |-> DeltaOf(current.performance, b.performance),
                  coverage |-> DeltaOf(current.coverage, b.coverage),
                  bundleSize |-> DeltaOf(current.bundleSize, b.bundleSize),
                  timestamp |-> current.timestamp,
                  commit |-> current.commit])

\* ------------------------------------------------------------------------
\* createBaseline
\* ------------------------------------------------------------------------

\* now is the value of new Date(); delta is Null or Some(delta): the
\* baseline gets a delta field only in the second case.
createBaseline(results, delta, env, now) ==
    [version |-> "1.0.0",
     created |-> now,
     commit |-> results.commit,
     branch |-> results.branch,
     performance |-> results.performance,
     coverage |-> results.coverage,
     bundleSize |-> results.bundleSize,
     metadata |-> [creator |-> IF env.GITHUB_ACTOR = "" THEN "automated"
                               ELSE env.GITHUB_ACTOR,
                   repository |-> env.GITHUB_REPOSITORY,
                   workflow |-> env.GITHUB_WORKFLOW,
                   runId |-> env.GITHUB_RUN_ID],
     delta |-> delta]

\* ------------------------------------------------------------------------
\* updateHistory
\* ------------------------------------------------------------------------

HistoryCap == 50

\* metric?.field || null: a number other than 0, else null.
OrNull(metric) ==
    IF metric.kind = "num" /\ metric.val # 0 THEN Some(metric.val) ELSE Null

\* An entry stamped one tick after the Baseline it records.
HistoryEntryStampedLater(baseline) ==
    [timestamp |-> baseline.created + 1,
     commit |-> baseline.commit,
     branch |-> baseline.branch,
     performance |-> OrNull(baseline.performance),
     coverage |-> OrNull(baseline.coverage),
     bundleSize |-> OrNull(baseline.bundleSize),
     metadata |-> [actor |-> baseline.metadata.creator,
                   runId |-> baseline.metadata.runId]]

\* historyEntry of updateHistory.
HistoryEntry(baseline) ==
    [timestamp |-> baseline.created,
     commit |-> baseline.commit,
     branch |-> baseline.branch,
     performance |-> OrNull(baseline.performance),
     coverage |-> OrNull(baseline.coverage),
     bundleSize |-> OrNull(baseline.bundleSize),
     metadata |-> [actor |-> baseline.metadata.creator,
                   runId |-> baseline.metadata.runId]]

\* Array.prototype.slice(-k): the last k elements, all of them if fewer.
SliceLast(s, k) ==
    IF Len(s) > k THEN SubSeq(s, Len(s) - k + 1, Len(s)) ELSE s

\* An update that cuts the History with slice(0, 50): it keeps the oldest
\* entries and drops the new one.
updateHistoryKeepsOldest(baseline, loaded) ==
    LET history == Append(loaded, HistoryEntry(baseline))
    IN IF Len(history) > HistoryCap THEN SubSeq(history, 1, HistoryCap)
       ELSE history

\* loaded is what loadHistory returned.
updateHistory(baseline, loaded) ==
    LET history == Append(loaded, HistoryEntry(baseline))
    IN IF Len(history) > HistoryCap THEN SliceLast(history, HistoryCap)
       ELSE history

\* ------------------------------------------------------------------------
\* analyzeTrend and generateTrendAnalysis
\* ------------------------------------------------------------------------

TrendWindow == 5

RECURSIVE SumSeq(_)
SumSeq(s) == IF s = <<>> THEN 0 ELSE s[1] + SumSeq(Tail(s))

\* values.reduce((sum, val, idx) => sum + (val * idx), 0), idx from 0
XYSum(values) == SumSeq([i \in DOMAIN values |-> values[i] * (i - 1)])

\* values.reduce((sum, val, idx) => sum + (idx * idx), 0), idx from 0
X2Sum(values) == SumSeq([i \in DOMAIN values |-> (i - 1) * (i - 1)])

\* The slope as the pair of the numerator and the denominator the code
\* divides; the denominator is positive when there are 2 values or more.
Slope(values) ==
    LET n == Len(values)
        xSum == (n * (n - 1)) \div 2
        ySum == SumSeq(values)
    IN [num |-> n * XYSum(values) - xSum * ySum,
        den |-> n * X2Sum(values) - xSum * xSum]

\* A trend analyzer that asks for 1 value instead of 2: for a single value
\* the slope is 0 / 0, NaN, and every comparison with it is false.
analyzeTrendFromOne(values, inverse) ==
    IF Len(values) < 1
    THEN [trend |-> "insufficient_data", slope |-> Null,
          direction |-> "undefined"]
    ELSE LET slope == Slope(values)
             threshold == IF inverse THEN -1 ELSE 1
         IN IF slope.den # 0 /\ 2 * Abs(slope.num) < slope.den
            THEN [trend |-> "stable", slope |-> Some(slope),
                  direction |-> "no_change"]
            ELSE IF slope.den # 0 /\ slope.num > threshold * slope.den
            THEN [trend |-> IF inverse THEN "worsening" ELSE "improving",
                  slope |-> Some(slope),
                  direction |-> "increasing"]
            ELSE [trend |-> IF inverse THEN "improving" ELSE "worsening",
                  slope |-> Some(slope),
                  direction |-> "decreasing"]

\* A trend analyzer whose stable band includes |slope| = 0.5.
analyzeTrendInclusive(values, inverse) ==
    IF Len(values) < 2
    THEN [trend |-> "insufficient_data", slope |-> Null,
          direction |-> "undefined"]
    ELSE LET slope == Slope(values)
             threshold == IF inverse THEN -1 ELSE 1
         IN IF 2 * Abs(slope.num) <= slope.den
            THEN [trend |-> "stable", slope |-> Some(slope),
                  direction |-> "no_change"]
            ELSE IF slope.num > threshold * slope.den
            THEN [trend |-> IF inverse THEN "worsening" ELSE "improving",
                  slope |-> Some(slope),
                  direction |-> "increasing"]
            ELSE [trend |-> IF inverse THEN "improving" ELSE "worsening",
                  slope |-> Some(slope),
                  direction |-> "decreasing"]

\* slope is Null and direction "undefined" where the code sets neither.
analyzeTrend(values, inverse) ==
    IF Len(values) < 2
    THEN [trend |-> "insufficient_data", slope |-> Null,
          direction |-> "undefined"]
    ELSE LET slope == Slope(values)
             threshold == IF inverse THEN -1 ELSE 1
         IN IF 2 * Abs(slope.num) < slope.den
            THEN [trend |-> "stable", slope |-> Some(slope),
                  direction |-> "no_change"]
            ELSE IF slope.num > threshold * slope.den
            THEN [trend |-> IF inverse THEN "worsening" ELSE "improving",
                  slope |-> Some(slope),
                  direction |-> "increasing"]
            ELSE [trend |-> IF inverse THEN "improving" ELSE "worsening",
                  slope |-> Some(slope),
                  direction |-> "decreasing"]

\* recent.map(h => h.<metric>).filter(v => v !== null)
RECURSIVE NonNull(_)
NonNull(opts) ==
    IF opts = <<>> THEN <<>>
    ELSE IF opts[1] = Null THEN NonNull(Tail(opts))
    ELSE <<opts[1][1]>> \o NonNull(Tail(opts))

\* With fewer than 2 entries the result is the single object {trend,
\* message} (perMetric FALSE); otherwise one result per metric.
generateTrendAnalysis(history) ==
    IF Len(history) < 2
    THEN [perMetric |-> FALSE, trend |-> "insufficient_data",
          performance |-> Null, coverage |-> Null, bundleSize |-> Null]
    ELSE LET recent == SliceLast(history, TrendWindow)
         IN [perMetric |-> TRUE, trend |-> "undefined",
             performance |-> Some(analyzeTrend(
                 NonNull([i \in DOMAIN recent |-> recent[i].performance]),
                 FALSE)),
             coverage |-> Some(analyzeTrend(
                 NonNull([i \in DOMAIN recent |-> recent[i].coverage]),
                 FALSE)),
             bundleSize |-> Some(analyzeTrend(
                 NonNull([i \in DOMAIN recent |-> recent[i].bundleSize]),
                 TRUE))]

\* ------------------------------------------------------------------------
\* Persistence: what JSON.stringify writes and JSON.parse reads back
\* ------------------------------------------------------------------------

JsonMetricDelta(d) ==
    IF d = Null THEN Null
    ELSE Some([d[1] EXCEPT !.changePercent = JsonNumber(@)])

JsonDelta(delta) ==
    IF delta = Null THEN Null
    ELSE Some([delta[1] EXCEPT !.performance = JsonMetricDelta(@),
                               !.coverage = JsonMetricDelta(@),
                               !.bundleSize = JsonMetricDelta(@)])

\* A serialisation that loses the bundleSize block.
JsonBaselineDropsBundle(baseline) ==
    [baseline EXCEPT !.delta = JsonDelta(@), !.bundleSize = Absent]

\* The content of metrics.json for a baseline object.
JsonBaseline(baseline) == [baseline EXCEPT !.delta = JsonDelta(@)]

\* A load that hands back what was last written to metrics.json even when
\* the text on disk no longer parses.
loadBaselineIgnoresDamage(file, bad) == file

\* loadBaseline: file is the content of metrics.json, Null when missing;
\* bad says that the text of the file is not JSON, so that JSON.parse
\* throws and the catch block returns null.
loadBaseline(file, bad) == IF file = Null \/ bad THEN Null ELSE file

\* loadHistory: file is the content of history.json, Null when missing;
\* bad says that the text of the file is not JSON.
loadHistory(file, bad) == IF file = Null \/ bad THEN <<>> ELSE file[1]

\* ------------------------------------------------------------------------
\* State
\* ------------------------------------------------------------------------

VARIABLES
    metricsFile,    \* baselines/metrics.json: Null or Some(baseline)
    historyFile,    \* baselines/history.json: Null or Some(history)
    trendsFile,     \* baselines/trends.json: Null or Some(trends)
    summaryFile,    \* baselines/summary.json: Null or Some(summary)
    rejectionFile,  \* baselines/rejection.json: Null or Some(rejection)
    damaged,        \* the files among "metrics" and "history" whose text
                    \* on disk is no longer the JSON that was written
    metricsBaselineFile,  \* baselines/metrics-baseline.json of the
                    \* lighter updateBaseline: Null or Some(baseline)
    now,            \* the clock new Date() reads; one tick per execution
    proc            \* per execution: position in run() and its locals

files == <<metricsFile, historyFile, trendsFile, summaryFile, rejectionFile,
           damaged, metricsBaselineFile>>
vars == <<metricsFile, historyFile, trendsFile, summaryFile, rejectionFile,
          damaged, metricsBaselineFile, now, proc>>

\* An execution that has not been started.
NoEnv ==
    [GITHUB_REF_NAME |-> <<>>, GITHUB_EVENT_NAME |-> "", GITHUB_ACTOR |-> "",
     GITHUB_REPOSITORY |-> Null, GITHUB_WORKFLOW |-> Null,
     GITHUB_RUN_ID |-> Null]

NoInput == [exists |-> FALSE, parses |-> FALSE, val |-> Null]

IdleProc ==
    [pc |-> "idle",
     env |-> NoEnv,
     input |-> NoInput,            \* reports/analysis-results.json
     isMainBranch |-> FALSE,
     isMergeEvent |-> FALSE,
     currentResults |-> Null,
     existingBaseline |-> Null,
     acceptability |-> Null,
     delta |-> Null,
     newBaseline |-> Null,
     history |-> <<>>,             \* updateHistory: what loadHistory gave
     updatedHistory |-> <<>>,
     trendAnalysis |-> Null,
     exitCode |-> -1,              \* -1 while running, else the exit code
     outcome |-> "none",           \* skipped, rejected, accepted or error
     inputRead |-> FALSE,          \* the snapshot file was looked at
     writes |-> <<>>,              \* the files written, in order
     failed |-> Null,              \* Some(the file whose write threw)
     before |-> <<Null, Null, Null, Null, Null, {}, Null>>]  \* files at the start

Init ==
    /\ metricsFile = Null
    /\ historyFile = Null
    /\ trendsFile = Null
    /\ summaryFile = Null
    /\ rejectionFile = Null
    /\ damaged = {}
    /\ metricsBaselineFile = Null
    /\ now = 0
    /\ proc = [p \in Procs |-> IdleProc]

\* ------------------------------------------------------------------------
\* The environment of an execution
\* ------------------------------------------------------------------------

\* The snapshot run-analysis.js leaves in reports/analysis-results.json for
\* the metrics m, at commit and time t, on the branch of env.
Snapshot(m, env, t) ==
    [timestamp |-> t,
     commit |-> t,
     branch |-> IF env.GITHUB_REF_NAME = <<>>
                THEN <<"u", "n", "k", "n", "o", "w", "n">>
                ELSE env.GITHUB_REF_NAME,
     performance |-> m.performance,
     coverage |-> m.coverage,
     bundleSize |-> m.bundleSize]

\* The snapshot file for the input choice i: a missing file, a file that
\* is not JSON, or the snapshot of i.metrics.
InputFile(i, env, t) ==
    IF i.file = "missing" THEN NoInput
    ELSE IF i.file = "corrupt"
    THEN [exists |-> TRUE, parses |-> FALSE, val |-> Null]
    ELSE [exists |-> TRUE, parses |-> TRUE,
          val |-> Some(Snapshot(i.metrics, env, t))]

Metrics(perf, cov, bundle) ==
    [performance |-> perf, coverage |-> cov, bundleSize |-> bundle]

Given(m) == [file |-> "ok", metrics |-> m]
Missing == [file |-> "missing", metrics |-> Metrics(Absent, Absent, Absent)]
Corrupt == [file |-> "corrupt", metrics |-> Metrics(Absent, Absent, Absent)]

\* A CI environment on branch b for event e.
CIEnv(b, e) ==
    [GITHUB_REF_NAME |-> b, GITHUB_EVENT_NAME |-> e, GITHUB_ACTOR |-> "dev",
     GITHUB_REPOSITORY |-> Some("repo"), GITHUB_WORKFLOW |-> Some("ci"),
     GITHUB_RUN_ID |-> Some("run")]

\* ------------------------------------------------------------------------
\* Actions: the constructor and the steps of run()
\* ------------------------------------------------------------------------

Finish(q, code, outcome) ==
    [q EXCEPT !.pc = "done", !.exitCode = code, !.outcome = outcome]

\* new BaselineUpdater(): the execution p starts in the environment env
\* with the snapshot file of input i; the constructor fixes isMainBranch
\* and isMergeEvent.
Construct(p, Envs, Inputs, max) ==
    /\ proc[p].pc = "idle"
    /\ now < max
    /\ \E env \in Envs, i \in Inputs :
         proc' = [proc EXCEPT ![p] =
                    [IdleProc EXCEPT !.pc = "run",
                                     !.env = env,
                                     !.input = InputFile(i, env, now + 1),
                                     !.isMainBranch = checkIfMainBranch(env),
                                     !.isMergeEvent = isMergeEvent(env),
                                     !.before = files]]
    /\ now' = now + 1
    /\ UNCHANGED files

\* if (!this.isMainBranch) return;
SkipNotMain(p) ==
    /\ proc[p].pc = "run"
    /\ ~proc[p].isMainBranch
    /\ proc' = [proc EXCEPT ![p] = Finish(@, 0, "skipped")]
    /\ UNCHANGED <<files, now>>

\* if (!this.isMergeEvent) return;
SkipNotMerge(p) ==
    /\ proc[p].pc = "run"
    /\ proc[p].isMainBranch
    /\ ~proc[p].isMergeEvent
    /\ proc' = [proc EXCEPT ![p] = Finish(@, 0, "skipped")]
    /\ UNCHANGED <<files, now>>

\* A load that takes a missing snapshot file for "nothing to do" and ends
\* the run with exit code 0.
LoadCurrentResultsOrSkip(p) ==
    /\ proc[p].pc = "run"
    /\ proc[p].isMainBranch
    /\ proc[p].isMergeEvent
    /\ LET q == [proc[p] EXCEPT !.inputRead = TRUE]
       IN proc' = [proc EXCEPT ![p] =
                     IF q.input.exists /\ q.input.parses
                     THEN [q EXCEPT !.currentResults = q.input.val,
                                    !.pc = "loadBaseline"]
                     ELSE IF ~q.input.exists THEN Finish(q, 0, "skipped")
                     ELSE Finish(q, 1, "error")]
    /\ UNCHANGED <<files, now>>

\* loadCurrentResults: throws when the file is missing or is not JSON, and
\* run() then exits with code 1.
LoadCurrentResults(p) ==
    /\ proc[p].pc = "run"
    /\ proc[p].isMainBranch
    /\ proc[p].isMergeEvent
    /\ LET q == [proc[p] EXCEPT !.inputRead = TRUE]
       IN proc' = [proc EXCEPT ![p] =
                     IF q.input.exists /\ q.input.parses
                     THEN [q EXCEPT !.currentResults = q.input.val,
                                    !.pc = "loadBaseline"]
                     ELSE Finish(q, 1, "error")]
    /\ UNCHANGED <<files, now>>

LoadBaseline(p) ==
    /\ proc[p].pc = "loadBaseline"
    /\ proc' = [proc EXCEPT ![p].existingBaseline =
                                loadBaseline(metricsFile,
                                             "metrics" \in damaged),
                            ![p].pc = "gate"]
    /\ UNCHANGED <<files, now>>

CheckAcceptability(p) ==
    /\ proc[p].pc = "gate"
    /\ LET a == isAcceptableForBaseline(proc[p].currentResults[1])
       IN proc' = [proc EXCEPT ![p].acceptability = Some(a),
                               ![p].pc = IF a.acceptable THEN "accepted"
                                         ELSE "rejected"]
    /\ UNCHANGED <<files, now>>

\* A rejection branch that also stores the rejected snapshot as Baseline.
WriteRejectionAndBaseline(p) ==
    /\ proc[p].pc = "rejected"
    /\ rejectionFile' =
         Some([timestamp |-> now,
               commit |-> proc[p].currentResults[1].commit,
               reason |-> "metrics_not_acceptable",
               score |-> proc[p].acceptability[1].score,
               issues |-> proc[p].acceptability[1].issues,
               criteria |-> criteria])
    /\ metricsFile' =
         Some(JsonBaseline(createBaseline(proc[p].currentResults[1], Null,
                                          proc[p].env, now)))
    /\ proc' = [proc EXCEPT ![p] =
                  Finish([@ EXCEPT !.writes = Append(@, "rejection")],
                         0, "rejected")]
    /\ damaged' = damaged \ {"metrics"}
    /\ UNCHANGED <<historyFile, trendsFile, summaryFile,
                   metricsBaselineFile, now>>

\* A rejection branch that fails the run: it writes rejection.json and
\* exits with code 1.
WriteRejectionExitsOne(p) ==
    /\ proc[p].pc = "rejected"
    /\ rejectionFile' =
         Some([timestamp |-> now,
               commit |-> proc[p].currentResults[1].commit,
               reason |-> "metrics_not_acceptable",
               score |-> proc[p].acceptability[1].score,
               issues |-> proc[p].acceptability[1].issues,
               criteria |-> criteria])
    /\ proc' = [proc EXCEPT ![p] =
                  Finish([@ EXCEPT !.writes = Append(@, "rejection")],
                         1, "rejected")]
    /\ UNCHANGED <<metricsFile, historyFile, trendsFile, summaryFile,
                   damaged, metricsBaselineFile, now>>

\* The rejection branch: write rejection.json and return.
WriteRejection(p) ==
    /\ proc[p].pc = "rejected"
    /\ rejectionFile' =
         Some([timestamp |-> now,
               commit |-> proc[p].currentResults[1].commit,
               reason |-> "metrics_not_acceptable",
               score |-> proc[p].acceptability[1].score,
               issues |-> proc[p].acceptability[1].issues,
               criteria |-> criteria])
    /\ proc' = [proc EXCEPT ![p] =
                  Finish([@ EXCEPT !.writes = Append(@, "rejection")],
                         0, "rejected")]
    /\ UNCHANGED <<metricsFile, historyFile, trendsFile, summaryFile,
                   damaged, metricsBaselineFile, now>>

\* calculateDelta, createBaseline, updateHistory (which reads history.json)
\* and generateTrendAnalysis.
PrepareBaseline(p) ==
    /\ proc[p].pc = "accepted"
    /\ LET results == proc[p].currentResults[1]
           delta == calculateDelta(results, proc[p].existingBaseline)
           newBaseline == createBaseline(results, delta, proc[p].env, now)
           history == loadHistory(historyFile, "history" \in damaged)
           updatedHistory == updateHistory(newBaseline, history)
       IN proc' = [proc EXCEPT
                     ![p].delta = delta,
                     ![p].history = history,
                     ![p].newBaseline = Some(newBaseline),
                     ![p].updatedHistory = updatedHistory,
                     ![p].trendAnalysis =
                         Some(generateTrendAnalysis(updatedHistory)),
                     ![p].pc = "saveMetrics"]
    /\ UNCHANGED <<files, now>>

\* saveBaseline, first write: metrics.json
SaveMetrics(p) ==
    /\ proc[p].pc = "saveMetrics"
    /\ metricsFile' = Some(JsonBaseline(proc[p].newBaseline[1]))
    /\ proc' = [proc EXCEPT ![p].writes = Append(@, "metrics"),
                            ![p].pc = "saveHistory"]
    /\ damaged' = damaged \ {"metrics"}
    /\ UNCHANGED <<historyFile, trendsFile, summaryFile, rejectionFile,
                   metricsBaselineFile, now>>

\* A second write that reads history.json again and appends the run's
\* entry to what it finds there.
SaveHistoryAppendsToFile(p) ==
    /\ proc[p].pc = "saveHistory"
    /\ historyFile' =
         Some(Append(loadHistory(historyFile, "history" \in damaged),
                     proc[p].updatedHistory[Len(proc[p].updatedHistory)]))
    /\ proc' = [proc EXCEPT ![p].writes = Append(@, "history"),
                            ![p].pc = "saveTrends"]
    /\ damaged' = damaged \ {"history"}
    /\ UNCHANGED <<metricsFile, trendsFile, summaryFile, rejectionFile,
                   metricsBaselineFile, now>>

\* saveBaseline, second write: history.json
SaveHistory(p) ==
    /\ proc[p].pc = "saveHistory"
    /\ historyFile' = Some(proc[p].updatedHistory)
    /\ proc' = [proc EXCEPT ![p].writes = Append(@, "history"),
                            ![p].pc = "saveTrends"]
    /\ damaged' = damaged \ {"history"}
    /\ UNCHANGED <<metricsFile, trendsFile, summaryFile, rejectionFile,
                   metricsBaselineFile, now>>

\* saveBaseline, third write: trends.json
SaveTrends(p) ==
    /\ proc[p].pc = "saveTrends"
    /\ trendsFile' = Some([analysis |-> proc[p].trendAnalysis[1],
                           updated |-> now,
                           commit |-> proc[p].newBaseline[1].commit])
    /\ proc' = [proc EXCEPT ![p].writes = Append(@, "trends"),
                            ![p].pc = "generateSummary"]
    /\ UNCHANGED <<metricsFile, historyFile, summaryFile, rejectionFile,
                   damaged, metricsBaselineFile, now>>

\* A summary with the two actions swapped.
generateSummarySwapped(baseline, delta, trendAnalysis, isUpdate, t) ==
    [action |-> IF isUpdate THEN "created" ELSE "updated",
     timestamp |-> t,
     commit |-> baseline.commit,
     branch |-> baseline.branch,
     metrics |-> [performance |-> OrNull(baseline.performance),
                  coverage |-> OrNull(baseline.coverage),
                  bundleSize |-> OrNull(baseline.bundleSize)],
     delta |-> delta,
     trends |-> trendAnalysis,
     metadata |-> baseline.metadata]

\* metric?.field || null, as generateSummary writes the metrics
generateSummary(baseline, delta, trendAnalysis, isUpdate, t) ==
    [action |-> IF isUpdate THEN "updated" ELSE "created",
     timestamp |-> t,
     commit |-> baseline.commit,
     branch |-> baseline.branch,
     metrics |-> [performance |-> OrNull(baseline.performance),
                  coverage |-> OrNull(baseline.coverage),
                  bundleSize |-> OrNull(baseline.bundleSize)],
     delta |-> delta,
     trends |-> trendAnalysis,
     metadata |-> baseline.metadata]

\* An accepted run that also removes the rejection record of an earlier
\* run.
GenerateSummaryClearsRejection(p) ==
    /\ proc[p].pc = "generateSummary"
    /\ LET summary == generateSummary(proc[p].newBaseline[1], proc[p].delta,
                                      proc[p].trendAnalysis[1],
                                      proc[p].existingBaseline # Null, now)
       IN summaryFile' = Some([summary EXCEPT !.delta = JsonDelta(@)])
    /\ rejectionFile' = Null
    /\ proc' = [proc EXCEPT ![p] =
                  Finish([@ EXCEPT !.writes = Append(@, "summary")],
                         0, "accepted")]
    /\ UNCHANGED <<metricsFile, historyFile, trendsFile, damaged,
                   metricsBaselineFile, now>>

\* generateSummary writes summary.json; run() then returns.
GenerateSummary(p) ==
    /\ proc[p].pc = "generateSummary"
    /\ LET summary == generateSummary(proc[p].newBaseline[1], proc[p].delta,
                                      proc[p].trendAnalysis[1],
                                      proc[p].existingBaseline # Null, now)
       IN summaryFile' = Some([summary EXCEPT !.delta = JsonDelta(@)])
    /\ proc' = [proc EXCEPT ![p] =
                  Finish([@ EXCEPT !.writes = Append(@, "summary")],
                         0, "accepted")]
    /\ UNCHANGED <<metricsFile, historyFile, trendsFile, rejectionFile,
                   damaged, metricsBaselineFile, now>>

\* The file the write at position pc of run() goes to.
WriteTarget(pc) ==
    IF pc = "rejected" THEN "rejection"
    ELSE IF pc = "saveMetrics" THEN "metrics"
    ELSE IF pc = "saveHistory" THEN "history"
    ELSE IF pc = "saveTrends" THEN "trends"
    ELSE "summary"

\* A write that fails and is then tried again.
WriteFailsAndRetries(p) ==
    /\ proc[p].pc \in {"rejected", "saveMetrics", "saveHistory",
                       "saveTrends", "generateSummary"}
    /\ proc[p].failed = Null
    /\ proc' = [proc EXCEPT ![p].failed = Some(WriteTarget(proc[p].pc))]
    /\ UNCHANGED <<files, now>>

\* fs.writeFileSync throws: the catch block of run() exits with code 1.
WriteFails(p) ==
    /\ proc[p].pc \in {"rejected", "saveMetrics", "saveHistory",
                       "saveTrends", "generateSummary"}
    /\ proc' = [proc EXCEPT ![p] =
                  Finish([@ EXCEPT !.failed = Some(WriteTarget(proc[p].pc))],
                         1, "error")]
    /\ UNCHANGED <<files, now>>

\* Between two executions the text of metrics.json or history.json stops
\* being JSON (a write that failed half-way, an edit outside the program):
\* the file still exists, and JSON.parse of it throws.
Damage(f) ==
    /\ \A p \in Procs : proc[p].pc = "idle"
    /\ f \notin damaged
    /\ IF f = "metrics" THEN metricsFile # Null ELSE historyFile # Null
    /\ damaged' = damaged \cup {f}
    /\ UNCHANGED <<metricsFile, historyFile, trendsFile, summaryFile,
                   rejectionFile, metricsBaselineFile,
                   now, proc>>

\* The process is gone; its slot can hold the next execution.
Exit(p) ==
    /\ proc[p].pc = "done"
    /\ proc' = [proc EXCEPT ![p] = IdleProc]
    /\ UNCHANGED <<files, now>>

\* The steps of run() after construction, writes succeeding.
Step(p) ==
    \/ SkipNotMain(p)
    \/ SkipNotMerge(p)
    \/ LoadCurrentResults(p)
    \/ LoadBaseline(p)
    \/ CheckAcceptability(p)
    \/ WriteRejection(p)
    \/ PrepareBaseline(p)
    \/ SaveMetrics(p)
    \/ SaveHistory(p)
    \/ SaveTrends(p)
    \/ GenerateSummary(p)
    \/ Exit(p)

\* ------------------------------------------------------------------------
\* Specifications
\* ------------------------------------------------------------------------

\* Executions run one at a time: a single slot, reused.
Serial == {"A"}

Main == <<"m", "a", "i", "n">>
Feature == <<"f", "e", "a", "t">>

\* Spec: successive executions on a store that starts empty, with writes
\* that may fail.
Envs == {CIEnv(Main, "push"), CIEnv(Feature, "push"),
         CIEnv(Main, "pull_request")}

Inputs ==
    {Missing,
     Given(Metrics(Num(80), Num(80), Num(2048))),
     Given(Metrics(Num(0), Num(80), Num(0))),
     Given(Metrics(Num(80), Num(50), Num(2048000))),
     Given(Metrics(ErrorObj, Absent, ErrorObj))}

Next ==
    \E p \in Serial :
        \/ Construct(p, Envs, Inputs, MaxRuns)
        \/ Step(p)
        \/ WriteFails(p)

Spec == Init /\ [][Next]_vars

\* SpecGuard: the guards of run() over branch names and events.
GuardBranches ==
    { Main,
      <<"M", "a", "i", "n">>,
      <<"M", "A", "S", "T", "E", "R">>,
      <<"d", "e", "v", "e", "l", "o", "p">>,
      <<"m", "a", "i", "n", "s">>,
      <<"m", "a", "i">>,
      Feature,
      <<>> }

GuardEvents == {"push", "Push", "pull_request", "workflow_dispatch", ""}

GuardEnvs == {CIEnv(b, e) : b \in GuardBranches, e \in GuardEvents}

GuardInputs ==
    {Missing, Corrupt,
     Given(Metrics(Num(80), Num(80), Num(2048))),
     Given(Metrics(Num(80), Num(50), Num(2048000)))}

NextGuard ==
    \E p \in Serial :
        \/ Construct(p, GuardEnvs, GuardInputs, MaxGuardRuns)
        \/ Step(p)
        \/ WriteFails(p)

SpecGuard == Init /\ [][NextGuard]_vars

\* SpecGate: the gate over snapshots whose metrics are missing, error
\* objects, or numbers on both sides of each bound.
GatePerformances == {Absent, ErrorObj, Num(69), Num(70), Num(71)}
GateCoverages == {Absent, ErrorObj, Num(59), Num(60)}
GateBundleSizes == {Absent, ErrorObj, Num(0), Num(1024511), Num(1024512)}

GateInputs ==
    {Given(Metrics(a, b, c)) :
        a \in GatePerformances, b \in GateCoverages, c \in GateBundleSizes}

GateEnvs == Envs

NextGate ==
    \E p \in Serial :
        \/ Construct(p, GateEnvs, GateInputs, MaxGateRuns)
        \/ Step(p)
        \/ WriteFails(p)

SpecGate == Init /\ [][NextGate]_vars

\* SpecTrend: accepted runs that build up a History, every write
\* succeeding, so that the trend analyzer sees windows of 2 and more values.
TrendInputs ==
    {Given(Metrics(Num(a), Num(80), Num(c))) :
        a \in {90, 91, 92}, c \in {100, 101}}
    \cup {Given(Metrics(Absent, Num(80), Num(100))),
          Given(Metrics(Num(90), Num(50), Num(2048000)))}

NextTrend ==
    \E p \in Serial :
        \/ Construct(p, Envs, TrendInputs, MaxTrendRuns)
        \/ Step(p)

SpecTrend == Init /\ [][NextTrend]_vars

\* SpecCap: executions on a store that earlier accepted runs have filled
\* up to the History's cap. The store after k accepted runs of the same
\* snapshot metrics at times 1..k is computed with the operations of the
\* accepted path.
MaxCapRuns == 2

CapEnv == CIEnv(Main, "push")
CapMetrics == Metrics(Num(80), Num(80), Num(2048))

\* The Baseline the k-th of these runs stores. Its delta is taken against
\* the Baseline of run k - 1, of which calculateDelta reads the three
\* metrics only.
BaselineAfter(k) ==
    LET results == Snapshot(CapMetrics, CapEnv, k)
        existing ==
            IF k = 1 THEN Null
            ELSE loadBaseline(Some(JsonBaseline(
                     createBaseline(Snapshot(CapMetrics, CapEnv, k - 1), Null,
                                    CapEnv, k - 1))), FALSE)
    IN createBaseline(results, calculateDelta(results, existing), CapEnv, k)

\* The History after k of these runs, k <= HistoryCap: one entry per run,
\* none cut off yet.
HistoryAfter(k) == [i \in 1..k |-> HistoryEntry(BaselineAfter(i))]

SummaryAfter(k) ==
    LET summary == generateSummary(BaselineAfter(k), BaselineAfter(k).delta,
                                   generateTrendAnalysis(HistoryAfter(k)),
                                   k > 1, k)
    IN [summary EXCEPT !.delta = JsonDelta(@)]

CapStarts == {HistoryCap - 1, HistoryCap}

InitCap ==
    \E k \in CapStarts :
        /\ metricsFile = Some(JsonBaseline(BaselineAfter(k)))
        /\ historyFile = Some(HistoryAfter(k))
        /\ trendsFile = Some([analysis |-> generateTrendAnalysis(HistoryAfter(k)),
                              updated |-> k,
                              commit |-> k])
        /\ summaryFile = Some(SummaryAfter(k))
        /\ rejectionFile = Null
        /\ damaged = {}
        /\ metricsBaselineFile = Null
        /\ now = k
        /\ proc = [p \in Procs |-> IdleProc]

NextCap ==
    \E p \in Serial :
        \/ Construct(p, Envs, Inputs, HistoryCap + MaxCapRuns)
        \/ Step(p)
        \/ WriteFails(p)

SpecCap == InitCap /\ [][NextCap]_vars

\* SpecDelta: a second execution finds the Baseline of the first, with
\* metrics that differ from it, are missing on one side or on both.
MaxDeltaRuns == 2

DeltaInputs ==
    {Given(Metrics(Num(80), Num(80), Num(2048))),
     Given(Metrics(Num(90), Num(80), Num(1024))),
     Given(Metrics(Absent, Num(80), Num(2048))),
     Given(Metrics(Num(90), ErrorObj, Num(1024))),
     Given(Metrics(Num(80), Num(50), Num(2048000)))}

NextDelta ==
    \E p \in Serial :
        \/ Construct(p, Envs, DeltaInputs, MaxDeltaRuns)
        \/ Step(p)
        \/ WriteFails(p)

SpecDelta == Init /\ [][NextDelta]_vars

\* SpecCorrupt: executions on a store whose metrics.json and history.json
\* can be damaged between them.
MaxCorruptRuns == 2

StoreFiles == {"metrics", "history"}

CorruptInputs ==
    {Given(Metrics(Num(80), Num(80), Num(2048))),
     Given(Metrics(Num(90), Num(80), Num(1024))),
     Given(Metrics(Num(80), Num(50), Num(2048000)))}

NextCorrupt ==
    \/ \E p \in Serial :
          \/ Construct(p, Envs, CorruptInputs, MaxCorruptRuns)
          \/ Step(p)
          \/ WriteFails(p)
    \/ \E f \in StoreFiles : Damage(f)

SpecCorrupt == Init /\ [][NextCorrupt]_vars

\* SpecSerial: executions one after the other, every write succeeding, on
\* a store that starts empty or as 49 or 50 accepted runs leave it.
InitSerial == Init \/ InitCap

NextSerial ==
    \E p \in Serial :
        \/ now < HistoryCap - 1 /\ Construct(p, Envs, Inputs, MaxRuns)
        \/ now >= HistoryCap - 1
              /\ Construct(p, Envs, Inputs, HistoryCap + MaxCapRuns)
        \/ Step(p)

SpecSerial == InitSerial /\ [][NextSerial]_vars

\* SpecConc: two executions of the script side by side on the same files,
\* their steps interleaved in any order.
MaxConcRuns == 2

ConcInputs ==
    {Given(Metrics(Num(80), Num(80), Num(2048))),
     Given(Metrics(Num(80), Num(50), Num(2048000)))}

NextConc ==
    \E p \in Procs :
        \/ Construct(p, Envs, ConcInputs, MaxConcRuns)
        \/ Step(p)

SpecConc == Init /\ [][NextConc]_vars

\* ------------------------------------------------------------------------
\* Claims
\* ------------------------------------------------------------------------

\* The executions whose gate has decided, and the decision.
Decided(p) == proc[p].acceptability # Null
Accepts(p) == proc[p].acceptability[1].acceptable

\* C1: in a run whose gate returns acceptable = false, metrics.json,
\* history.json, trends.json and summary.json are, at every point of the
\* run and at its end, what they were when the run started, and the run
\* writes nothing but the rejection record; a step of any run changes
\* metrics.json only if the gate of that run accepted.
C1_RejectedRunKeepsStore ==
    /\ [](\A p \in Procs :
            (Decided(p) /\ ~Accepts(p)) =>
                /\ metricsFile = proc[p].before[1]
                /\ historyFile = proc[p].before[2]
                /\ trendsFile = proc[p].before[3]
                /\ summaryFile = proc[p].before[4]
                /\ proc[p].writes \in {<<>>, <<"rejection">>}
                /\ (proc[p].outcome = "rejected" =>
                        proc[p].writes = <<"rejection">>))
    /\ [][metricsFile' # metricsFile =>
            \E p \in Procs : Decided(p) /\ Accepts(p)
                             /\ proc[p].pc = "saveMetrics"]_vars

\* A rejected run has ended on a store that held a Baseline and a History,
\* and has written its rejection record.
C1_Witness ==
    \E p \in Procs :
        /\ proc[p].outcome = "rejected"
        /\ proc[p].before[1] # Null
        /\ proc[p].before[2] # Null
        /\ rejectionFile # proc[p].before[5]

\* The claim's reading of the gate, from the snapshot alone.
MetricNames == {"performance", "coverage", "bundleSize"}
PresentMetrics(r) == {m \in MetricNames : r[m].kind = "num"}
ClaimWeight(m) == IF m = "coverage" THEN 40 ELSE 30
ClaimMeetsBound(r, m) ==
    IF m = "performance" THEN r[m].val >= 70
    ELSE IF m = "coverage" THEN r[m].val >= 60
    ELSE MathRound(r[m].val, 1024) <= 1000
ClaimSum(S) ==
    (IF "performance" \in S THEN ClaimWeight("performance") ELSE 0)
    + (IF "coverage" \in S THEN ClaimWeight("coverage") ELSE 0)
    + (IF "bundleSize" \in S THEN ClaimWeight("bundleSize") ELSE 0)
ClaimTotalWeight(r) == ClaimSum(PresentMetrics(r))
ClaimScore(r) == ClaimSum({m \in PresentMetrics(r) : ClaimMeetsBound(r, m)})

\* C2: the gate's result for a snapshot is the one computed from the
\* weights 30/40/30 of the metrics present: totalWeight is their sum, score
\* the sum over those that meet their bound (the bundle's size in KB being
\* the rounded number of KB the code compares), the returned percentage is
\* score/totalWeight*100, or 0 when totalWeight is 0, and acceptable is
\* percentage >= 70.
C2_GateIsWeightedShare ==
    \A p \in Procs :
        Decided(p) =>
            LET r == proc[p].currentResults[1]
                a == proc[p].acceptability[1]
                tw == ClaimTotalWeight(r)
                sc == ClaimScore(r)
            IN /\ GateTotals(r).totalWeight = tw
               /\ GateTotals(r).score = sc
               /\ a.score.den > 0
               /\ IF tw = 0 THEN a.score.num = 0
                  ELSE a.score.num * tw = sc * 100 * a.score.den
               /\ a.acceptable <=> (tw > 0 /\ sc * 100 >= 70 * tw)

\* The gate has decided on a snapshot with a missing metric, a metric that
\* fails its bound and one that meets it.
C2_Witness ==
    \E p \in Procs :
        /\ Decided(p)
        /\ LET r == proc[p].currentResults[1]
           IN /\ PresentMetrics(r) # MetricNames
              /\ \E m \in PresentMetrics(r) : ClaimMeetsBound(r, m)
              /\ \E m \in PresentMetrics(r) : ~ClaimMeetsBound(r, m)

\* ------------------------------------------------------------------------
\* Claims about the trend analyzer (SpecTrend)
\* ------------------------------------------------------------------------

\* The executions that hold a per-metric trend result, and the values the
\* analyzer was given for metric m: the non-null values of the last 5
\* entries of the updated History.
HasTrends(p) ==
    proc[p].trendAnalysis # Null /\ proc[p].trendAnalysis[1].perMetric
TrendOf(p, m) == proc[p].trendAnalysis[1][m][1]
WindowValues(p, m) ==
    LET recent == SliceLast(proc[p].updatedHistory, 5)
    IN NonNull([i \in DOMAIN recent |-> recent[i][m]])

\* The least-squares slope over x = 0..n-1 as the claims write it:
\* (n*Sum(x*y) - Sum(x)*Sum(y)) / (n*Sum(x^2) - Sum(x)^2), as num/den.
ClaimSlope(v) ==
    LET n == Len(v)
        sx == SumSeq([i \in 1..n |-> i - 1])
        sy == SumSeq(v)
        sxy == SumSeq([i \in 1..n |-> (i - 1) * v[i]])
        sxx == SumSeq([i \in 1..n |-> (i - 1) * (i - 1)])
    IN [num |-> n * sxy - sx * sy, den |-> n * sxx - sx * sx]

\* |slope| >= 0.5 for a slope num/den with den > 0
Steep(sl) == 2 * Abs(sl.num) >= sl.den

\* C3: for performance and coverage (not inverse), 2 or more values and
\* |slope| >= 0.5, the result is "improving"/"increasing" when the slope is
\* positive and "worsening"/"decreasing" when it is negative.
C3_NonInverseFollowsSign ==
    \A p \in Procs :
        HasTrends(p) =>
            \A m \in {"performance", "coverage"} :
                LET v == WindowValues(p, m)
                    sl == ClaimSlope(v)
                    t == TrendOf(p, m)
                IN (Len(v) >= 2 /\ Steep(sl)) =>
                      /\ sl.num > 0 => (t.trend = "improving"
                                        /\ t.direction = "increasing")
                      /\ sl.num < 0 => (t.trend = "worsening"
                                        /\ t.direction = "decreasing")

\* C4: for bundleSize (inverse), 2 or more values and |slope| >= 0.5, the
\* result is "worsening" with direction "increasing" when the slope is
\* positive and "improving" with direction "decreasing" when it is
\* negative.
C4_InverseFlipsLabels ==
    \A p \in Procs :
        HasTrends(p) =>
            LET v == WindowValues(p, "bundleSize")
                sl == ClaimSlope(v)
                t == TrendOf(p, "bundleSize")
            IN (Len(v) >= 2 /\ Steep(sl)) =>
                  /\ sl.num > 0 => (t.trend = "worsening"
                                    /\ t.direction = "increasing")
                  /\ sl.num < 0 => (t.trend = "improving"
                                    /\ t.direction = "decreasing")

\* C10: for each of the three metrics the result is "stable" exactly when
\* the analyzer got 2 or more values whose least-squares slope is below
\* 0.5 in absolute value; a stable result has direction "no_change" and
\* carries that slope; identical values are stable.
C10_StableIffFlat ==
    \A p \in Procs :
        HasTrends(p) =>
            \A m \in MetricNames :
                LET v == WindowValues(p, m)
                    sl == ClaimSlope(v)
                    t == TrendOf(p, m)
                IN /\ t.trend = "stable" <=> (Len(v) >= 2 /\ ~Steep(sl))
                   /\ t.trend = "stable" =>
                         /\ t.direction = "no_change"
                         /\ t.slope # Null
                         /\ t.slope[1].num * sl.den = sl.num * t.slope[1].den
                   /\ t.direction = "no_change" => t.trend = "stable"
                   /\ (Len(v) >= 2 /\ \A i \in DOMAIN v : v[i] = v[1]) =>
                         t.trend = "stable"

\* One run has a stable performance trend with a slope other than 0, a
\* stable bundleSize trend over identical values, and a coverage trend over
\* identical values.
C10_Witness ==
    \E p \in Procs :
        /\ HasTrends(p)
        /\ TrendOf(p, "performance").trend = "stable"
        /\ TrendOf(p, "performance").slope[1].num # 0
        /\ TrendOf(p, "bundleSize").trend = "stable"
        /\ Len(WindowValues(p, "bundleSize")) >= 3
        /\ TrendOf(p, "coverage").trend = "stable"

\* ------------------------------------------------------------------------
\* Claims about the delta calculator (Spec)
\* ------------------------------------------------------------------------

\* C5: a metric delta whose baseline value is 0 keeps change = current and
\* has no changePercent that is Infinity or NaN in the run, nor one that is
\* null in metrics.json.
C5_NoDivisionByZero ==
    /\ \A p \in Procs :
          proc[p].delta # Null =>
              \A m \in MetricNames :
                  LET d == proc[p].delta[1][m]
                  IN (d # Null /\ d[1].baseline = 0) =>
                        /\ d[1].change = d[1].current
                        /\ d[1].changePercent.kind
                               \notin {"Infinity", "-Infinity", "NaN"}
    /\ (metricsFile # Null /\ metricsFile[1].delta # Null) =>
          \A m \in MetricNames :
              LET d == metricsFile[1].delta[1][m]
              IN (d # Null /\ d[1].baseline = 0) =>
                    d[1].changePercent.kind # "null"

\* ------------------------------------------------------------------------
\* Claims about the guards of run() (SpecGuard)
\* ------------------------------------------------------------------------

\* b is main, master or develop up to the case of its letters.
ClaimMainLine(b) ==
    \E m \in { <<"m", "a", "i", "n">>, <<"m", "a", "s", "t", "e", "r">>,
               <<"d", "e", "v", "e", "l", "o", "p">> } :
        /\ Len(b) = Len(m)
        /\ \A i \in DOMAIN m : b[i] = m[i] \/ LowerChar(b[i]) = m[i]

ClaimQualifies(p) ==
    /\ ClaimMainLine(proc[p].env.GITHUB_REF_NAME)
    /\ proc[p].env.GITHUB_EVENT_NAME = "push"

\* C7: an execution looks at the snapshot file only when its branch is a
\* main-line branch (case-insensitively) and its event is exactly "push";
\* any other execution ends as skipped with exit code 0, having read no
\* snapshot and written no file, whether or not the snapshot file exists.
C7_GuardsHaltQuietly ==
    \A p \in Procs :
        proc[p].pc # "idle" =>
            /\ proc[p].inputRead => ClaimQualifies(p)
            /\ ~ClaimQualifies(p) =>
                  /\ proc[p].pc \in {"run", "done"}
                  /\ ~proc[p].inputRead
                  /\ proc[p].writes = <<>>
                  /\ files = proc[p].before
                  /\ proc[p].exitCode \in {-1, 0}
                  /\ proc[p].pc = "done" =>
                        (proc[p].outcome = "skipped" /\ proc[p].exitCode = 0)

\* A run on branch MASTER with event "Push" has ended as skipped with exit
\* code 0 although its snapshot file is missing.
C7_Witness ==
    \E p \in Procs :
        /\ proc[p].pc = "done"
        /\ proc[p].outcome = "skipped"
        /\ proc[p].exitCode = 0
        /\ proc[p].env.GITHUB_REF_NAME = <<"M", "A", "S", "T", "E", "R">>
        /\ proc[p].env.GITHUB_EVENT_NAME = "Push"
        /\ ~proc[p].input.exists

\* ------------------------------------------------------------------------
\* Claims about the gate (SpecGate)
\* ------------------------------------------------------------------------

\* Values a metric is moved to when it is raised or lowered.
Probe(m) ==
    IF m = "performance" THEN {0, 69, 70, 71, 100}
    ELSE IF m = "coverage" THEN {0, 59, 60, 61, 100}
    ELSE {0, 1, 1024000, 1024511, 1024512, 2048000}

\* a <= b for two percentages
PctLeq(a, b) == a.num * b.den <= b.num * a.den

\* The gate's result for r is not worse when metric m is moved to w.
NotWorseAt(r, a, m, w) ==
    LET a2 == isAcceptableForBaseline([r EXCEPT ![m] = Num(w)])
    IN /\ a.acceptable => a2.acceptable
       /\ PctLeq(a.score, a2.score)

\* C8 as stated: raising any present metric, bundleSize included, never
\* turns acceptable from true to false and never lowers the score.
C8_RaisingAnyMetric ==
    \A p \in Procs :
        Decided(p) =>
            LET r == proc[p].currentResults[1]
                a == proc[p].acceptability[1]
            IN \A m \in PresentMetrics(r) :
                   \A w \in Probe(m) : w > r[m].val => NotWorseAt(r, a, m, w)

\* C8 as amended: raising performance or coverage, and lowering
\* bundleSize, never turns acceptable from true to false and never lowers
\* the score.
C8_RaisingTowardsBound ==
    \A p \in Procs :
        Decided(p) =>
            LET r == proc[p].currentResults[1]
                a == proc[p].acceptability[1]
            IN \A m \in PresentMetrics(r) :
                   \A w \in Probe(m) :
                       (IF m = "bundleSize" THEN w < r[m].val
                                            ELSE w > r[m].val)
                           => NotWorseAt(r, a, m, w)

\* The gate has rejected a snapshot that it accepts once performance is
\* raised, and that has a bundleSize which can be lowered.
C8_Witness ==
    \E p \in Procs :
        /\ Decided(p)
        /\ ~Accepts(p)
        /\ LET r == proc[p].currentResults[1]
           IN /\ PresentMetrics(r) = MetricNames
              /\ r.bundleSize.val > 0
              /\ \E w \in Probe("performance") :
                    /\ w > r.performance.val
                    /\ isAcceptableForBaseline(
                           [r EXCEPT !.performance = Num(w)]).acceptable

\* C9: a snapshot none of whose metrics holds a number gives totalWeight 0,
\* score 0 and acceptable = false, and the run neither reaches the accepted
\* path nor writes metrics.json.
C9_FailsClosed ==
    \A p \in Procs :
        (proc[p].currentResults # Null
         /\ PresentMetrics(proc[p].currentResults[1]) = {}) =>
            /\ GateTotals(proc[p].currentResults[1]).totalWeight = 0
            /\ Decided(p) =>
                  /\ ~Accepts(p)
                  /\ proc[p].acceptability[1].score.num = 0
            /\ proc[p].pc \in {"loadBaseline", "gate", "rejected", "done"}
            /\ proc[p].outcome # "accepted"
            /\ "metrics" \notin {proc[p].writes[i] : i \in DOMAIN proc[p].writes}
            /\ metricsFile = proc[p].before[1]

\* A run whose snapshot holds error objects and a missing metric, and no
\* number, has ended as rejected.
C9_Witness ==
    \E p \in Procs :
        /\ proc[p].outcome = "rejected"
        /\ PresentMetrics(proc[p].currentResults[1]) = {}
        /\ proc[p].currentResults[1].performance.kind = "error"
        /\ proc[p].currentResults[1].coverage.kind = "absent"

\* ------------------------------------------------------------------------
\* Claims about the History (SpecCap)
\* ------------------------------------------------------------------------

\* C6: history.json never holds more than 50 entries and its entries are
\* in chronological order; after an accepted run its last entry is that
\* run's; a run that found 50 entries leaves the last 49 of them, in
\* order, followed by its own, and a run that found fewer leaves them all,
\* followed by its own.
C6_HistoryKeepsLast50 ==
    /\ historyFile # Null =>
          LET h == historyFile[1]
          IN /\ Len(h) <= 50
             /\ \A i \in 1..(Len(h) - 1) : h[i].timestamp < h[i + 1].timestamp
    /\ \A p \in Procs :
          proc[p].outcome = "accepted" =>
              LET old == IF proc[p].before[2] = Null THEN <<>>
                         ELSE proc[p].before[2][1]
                  new == historyFile[1]
                  last == new[Len(new)]
              IN /\ last.commit = proc[p].currentResults[1].commit
                 /\ last.timestamp = proc[p].newBaseline[1].created
                 /\ IF Len(old) = 50
                    THEN /\ Len(new) = 50
                         /\ \A i \in 1..49 : new[i] = old[i + 1]
                    ELSE /\ Len(new) = Len(old) + 1
                         /\ \A i \in 1..Len(old) : new[i] = old[i]

\* An accepted run has ended on a History that held 50 entries.
C6_Witness ==
    \E p \in Procs :
        /\ proc[p].outcome = "accepted"
        /\ proc[p].before[2] # Null
        /\ Len(proc[p].before[2][1]) = 50
        /\ Len(historyFile[1]) = 50
        /\ historyFile[1][1] = proc[p].before[2][1][2]


\* ------------------------------------------------------------------------
\* Claims about the delta calculator (SpecDelta)
\* ------------------------------------------------------------------------

\* C11: the delta of a run that found a Baseline holds, for each metric
\* that is a number in the snapshot and in that Baseline, current,
\* baseline, change = current - baseline and changePercent =
\* change / baseline * 100 (90 against 80: change 10, changePercent 12.5),
\* and null for a metric that is not a number on one side or the other;
\* the snapshot and the loaded Baseline are afterwards what was read.
C11_DeltaPerMetric ==
    \A p \in Procs :
        proc[p].delta # Null =>
            LET cur == proc[p].currentResults[1]
                base == proc[p].before[1][1]
                d == proc[p].delta[1]
            IN /\ \A m \in MetricNames :
                      IF cur[m].kind = "num" /\ base[m].kind = "num"
                      THEN /\ d[m] # Null
                           /\ d[m][1].current = cur[m].val
                           /\ d[m][1].baseline = base[m].val
                           /\ d[m][1].change = cur[m].val - base[m].val
                           /\ base[m].val # 0 =>
                                 /\ d[m][1].changePercent.kind = "finite"
                                 /\ d[m][1].changePercent.num * base[m].val
                                      = (cur[m].val - base[m].val) * 100
                                        * d[m][1].changePercent.den
                           /\ (cur[m].val = 90 /\ base[m].val = 80) =>
                                 /\ d[m][1].change = 10
                                 /\ 2 * d[m][1].changePercent.num
                                      = 25 * d[m][1].changePercent.den
                      ELSE d[m] = Null
               /\ proc[p].currentResults = proc[p].input.val
               /\ proc[p].existingBaseline = proc[p].before[1]

\* A run has a delta with performance 90 against 80, a bundleSize that
\* shrank, and no coverage delta because the snapshot's coverage is an
\* error object while the Baseline's is a number.
C11_Witness ==
    \E p \in Procs :
        /\ proc[p].delta # Null
        /\ proc[p].delta[1].performance # Null
        /\ proc[p].delta[1].performance[1].current = 90
        /\ proc[p].delta[1].performance[1].baseline = 80
        /\ proc[p].delta[1].bundleSize # Null
        /\ proc[p].delta[1].bundleSize[1].change < 0
        /\ proc[p].delta[1].coverage = Null
        /\ proc[p].before[1][1].coverage.kind = "num"

\* The executions that have computed their delta and built their Baseline.
Prepared(p) == proc[p].newBaseline # Null

\* C12: the delta of a run is null exactly when metrics.json did not exist
\* when the run started, and is a delta object otherwise; the Baseline the
\* run builds and stores carries a delta exactly when the run has one, and
\* the Summary's delta is null exactly when the run's is.
C12_NoBaselineNoDelta ==
    \A p \in Procs :
        Prepared(p) =>
            /\ proc[p].delta = Null <=> proc[p].before[1] = Null
            /\ proc[p].newBaseline[1].delta = Null <=> proc[p].before[1] = Null
            /\ "metrics" \in {proc[p].writes[i] : i \in DOMAIN proc[p].writes}
                  => (metricsFile[1].delta = Null <=> proc[p].before[1] = Null)
            /\ proc[p].outcome = "accepted"
                  => (summaryFile[1].delta = Null <=> proc[p].before[1] = Null)

\* The first accepted run on an empty store has ended: its Summary's delta
\* is null and the Baseline it stored has no delta.
C12_Witness ==
    \E p \in Procs :
        /\ proc[p].outcome = "accepted"
        /\ proc[p].before[1] = Null
        /\ proc[p].delta = Null
        /\ summaryFile[1].delta = Null
        /\ metricsFile[1].delta = Null

\* ------------------------------------------------------------------------
\* Claims about the trend result of a run (SpecTrend)
\* ------------------------------------------------------------------------

\* The non-null values of metric m in the last 5 entries of the History h.
ClaimWindow(h, m) ==
    LET first == IF Len(h) > 5 THEN Len(h) - 4 ELSE 1
        recent == [i \in 1..(Len(h) - first + 1) |-> h[first + i - 1]]
    IN NonNull([i \in DOMAIN recent |-> recent[i][m]])

\* The trends value t holds, for each metric, the analyzer's result for the
\* window of the History h.
PerMetricOver(t, h) ==
    /\ t.perMetric
    /\ \A m \in MetricNames :
          /\ t[m] # Null
          /\ t[m][1] = analyzeTrend(ClaimWindow(h, m), m = "bundleSize")

\* The executions that have written trends.json.
WroteTrends(p) ==
    "trends" \in {proc[p].writes[i] : i \in DOMAIN proc[p].writes}

\* C13: after a run has stored its trends, trends.json holds the analyzer's
\* result, per metric, for the non-null values of the 5 most recent entries
\* of the history.json the same run stored, whatever trends.json held
\* before.
C13_TrendsFromStoredHistory ==
    \A p \in Procs :
        WroteTrends(p) => PerMetricOver(trendsFile[1].analysis, historyFile[1])

\* C14: the trends value of every accepted run, in trends.json and in the
\* Summary, holds one result for each of performance, coverage and
\* bundleSize; for the first accepted run each of them is
\* "insufficient_data".
C14_TrendsPerMetricAlways ==
    \A p \in Procs :
        /\ WroteTrends(p) =>
              /\ trendsFile[1].analysis.perMetric
              /\ \A m \in MetricNames :
                    /\ trendsFile[1].analysis[m] # Null
                    /\ Len(historyFile[1]) < 2 =>
                          trendsFile[1].analysis[m][1].trend
                              = "insufficient_data"
        /\ proc[p].outcome = "accepted" =>
              /\ summaryFile[1].trends.perMetric
              /\ \A m \in MetricNames : summaryFile[1].trends[m] # Null

\* Values a metric can take in a window of fewer than 2 values.
ShortWindows == {<<>>} \cup {<<v>> : v \in {0, 1, 59, 90, 2048000}}

\* C15: analyzeTrend returns "insufficient_data", with no slope, for every
\* sequence of fewer than 2 values, inverse or not; in a run whose History
\* has 2 or more entries, a metric with fewer than 2 non-null values in the
\* last 5 entries gets "insufficient_data".
C15_FewerThanTwoValues ==
    /\ \A v \in ShortWindows : \A inverse \in BOOLEAN :
          /\ analyzeTrend(v, inverse).trend = "insufficient_data"
          /\ analyzeTrend(v, inverse).slope = Null
    /\ \A p \in Procs :
          HasTrends(p) =>
              \A m \in MetricNames :
                  Len(ClaimWindow(proc[p].updatedHistory, m)) < 2 =>
                      /\ TrendOf(p, m).trend = "insufficient_data"
                      /\ TrendOf(p, m).slope = Null

\* A run whose History has 3 entries has one non-null performance value in
\* them: its performance trend is "insufficient_data" while its coverage
\* trend is not.
C15_Witness ==
    \E p \in Procs :
        /\ HasTrends(p)
        /\ Len(proc[p].updatedHistory) = 3
        /\ Len(ClaimWindow(proc[p].updatedHistory, "performance")) = 1
        /\ TrendOf(p, "performance").trend = "insufficient_data"
        /\ TrendOf(p, "coverage").trend # "insufficient_data"

\* ------------------------------------------------------------------------
\* Claims about the outcomes of run() (Spec)
\* ------------------------------------------------------------------------

\* The run of p has ended as accepted: summary.json is its Summary.
EndedAccepted(p) == proc[p].outcome = "accepted"

\* C16 as stated: the Summary's action is "created" when metrics.json did
\* not exist before the run and "updated" otherwise, and the run that
\* reports "created" is exactly the first run to end as accepted, the one
\* that found no Summary of an earlier accepted run.
C16_FirstAcceptedCreates ==
    \A p \in Procs :
        EndedAccepted(p) =>
            /\ summaryFile[1].action = "created" <=> proc[p].before[1] = Null
            /\ summaryFile[1].action = "created" <=> proc[p].before[4] = Null

\* C16 as amended: the Summary's action is "created" when metrics.json did
\* not exist before the run and "updated" otherwise; no run after a run
\* that ended as accepted finds the store without a Baseline, so every
\* later accepted run reports "updated".
C16_CreatedIffNoBaselineFile ==
    \A p \in Procs :
        /\ EndedAccepted(p) =>
              /\ summaryFile[1].action \in {"created", "updated"}
              /\ summaryFile[1].action = "created"
                     <=> proc[p].before[1] = Null
              /\ proc[p].before[4] # Null => summaryFile[1].action = "updated"
        /\ summaryFile # Null => metricsFile # Null

\* An accepted run that follows a rejected run on a store without a
\* Baseline has ended and reports "created".
C16_Witness ==
    \E p \in Procs :
        /\ EndedAccepted(p)
        /\ proc[p].before[1] = Null
        /\ proc[p].before[5] # Null
        /\ summaryFile[1].action = "created"

\* C17: a run on a main-line branch with event "push" whose snapshot file
\* is absent goes no further than the load of the snapshot: it ends in
\* failure with a non-zero exit code, and metrics.json, history.json,
\* trends.json, summary.json and rejection.json are throughout what they
\* were when the run started.
C17_MissingInputIsFatal ==
    \A p \in Procs :
        (proc[p].pc # "idle" /\ ClaimQualifies(p) /\ ~proc[p].input.exists) =>
            /\ proc[p].pc \in {"run", "done"}
            /\ proc[p].writes = <<>>
            /\ proc[p].failed = Null
            /\ files = proc[p].before
            /\ proc[p].pc = "done" =>
                  /\ proc[p].exitCode # 0
                  /\ proc[p].outcome = "error"
                  /\ proc[p].currentResults = Null

\* A run on main with event push and no snapshot file has ended with exit
\* code 1 on a store that holds a Baseline, a History and a rejection
\* record.
C17_Witness ==
    \E p \in Procs :
        /\ proc[p].pc = "done"
        /\ proc[p].exitCode = 1
        /\ proc[p].isMainBranch
        /\ proc[p].isMergeEvent
        /\ ~proc[p].input.exists
        /\ metricsFile # Null
        /\ historyFile # Null
        /\ rejectionFile # Null

\* ------------------------------------------------------------------------
\* Claims about unparsable store files (SpecCorrupt)
\* ------------------------------------------------------------------------

\* The store file f did not parse when the run of p started.
FoundDamaged(p, f) == proc[p].pc # "idle" /\ f \in proc[p].before[6]

\* C18: a run that finds a metrics.json that does not parse goes on as if
\* there were no Baseline: no delta, a Baseline stored without delta, and
\* action "created"; a run that finds a history.json that does not parse
\* goes on as if the History were empty: the History it stores holds
\* exactly its own entry. Neither run fails for that reason: it ends in
\* error only for a write that failed, and an accepted candidate goes
\* through the four writes and leaves both files parsable.
C18_CorruptStoreIsAbsent ==
    \A p \in Procs :
        /\ FoundDamaged(p, "metrics") =>
              /\ proc[p].existingBaseline = Null
              /\ Prepared(p) =>
                    /\ proc[p].delta = Null
                    /\ proc[p].newBaseline[1].delta = Null
              /\ EndedAccepted(p) =>
                    /\ summaryFile[1].action = "created"
                    /\ summaryFile[1].delta = Null
                    /\ metricsFile[1].delta = Null
                    /\ metricsFile[1].commit = proc[p].currentResults[1].commit
        /\ FoundDamaged(p, "history") =>
              /\ Prepared(p) =>
                    /\ Len(proc[p].updatedHistory) = 1
                    /\ proc[p].updatedHistory[1].commit
                           = proc[p].currentResults[1].commit
              /\ EndedAccepted(p) =>
                    /\ Len(historyFile[1]) = 1
                    /\ historyFile[1][1].commit
                           = proc[p].currentResults[1].commit
        /\ (FoundDamaged(p, "metrics") \/ FoundDamaged(p, "history")) =>
              /\ proc[p].outcome = "error" => proc[p].failed # Null
              /\ (proc[p].pc = "done" /\ proc[p].failed = Null
                  /\ Decided(p) /\ Accepts(p)) =>
                    /\ EndedAccepted(p)
                    /\ proc[p].exitCode = 0
                    /\ proc[p].writes
                           = <<"metrics", "history", "trends", "summary">>
                    /\ proc[p].trendAnalysis # Null
                    /\ damaged = {}

\* A run that found both files unparsable, the History with an entry of an
\* earlier run in it, has ended as accepted: "created", and a History of 1.
C18_Witness ==
    \E p \in Procs :
        /\ EndedAccepted(p)
        /\ proc[p].before[6] = {"metrics", "history"}
        /\ proc[p].before[1] # Null
        /\ Len(proc[p].before[2][1]) >= 1
        /\ summaryFile[1].action = "created"
        /\ Len(historyFile[1]) = 1
        /\ damaged = {}

\* ------------------------------------------------------------------------
\* Claims about the rejection record (SpecGate)
\* ------------------------------------------------------------------------

\* C19: a run whose candidate the gate did not accept, and whose write
\* succeeds, ends with exit code 0 and outcome "rejected", no error, having
\* written rejection.json and nothing else; the record holds the time of
\* the run, the candidate's commit, reason "metrics_not_acceptable", the
\* gate's score (below 70) and the gate's issues, one per present metric
\* that fails its bound.
C19_RejectionIsNormalEnd ==
    \A p \in Procs :
        /\ (Decided(p) /\ ~Accepts(p) /\ proc[p].pc = "done"
            /\ proc[p].failed = Null) =>
              /\ proc[p].outcome = "rejected"
              /\ proc[p].exitCode = 0
              /\ proc[p].writes = <<"rejection">>
        /\ proc[p].outcome = "rejected" =>
              LET r == proc[p].currentResults[1]
                  rec == rejectionFile[1]
                  tw == ClaimTotalWeight(r)
                  sc == ClaimScore(r)
              IN /\ ~Accepts(p)
                 /\ proc[p].exitCode = 0
                 /\ rec.timestamp = now
                 /\ rec.commit = r.commit
                 /\ rec.reason = "metrics_not_acceptable"
                 /\ rec.score.den > 0
                 /\ IF tw = 0 THEN rec.score.num = 0
                    ELSE rec.score.num * tw = sc * 100 * rec.score.den
                 /\ rec.score.num < 70 * rec.score.den
                 /\ rec.issues = proc[p].acceptability[1].issues
                 /\ Len(rec.issues)
                      = Cardinality({m \in PresentMetrics(r) :
                                        ~ClaimMeetsBound(r, m)})

\* A run has ended as rejected with exit code 0, and its record holds a
\* score above 0 and two issues.
C19_Witness ==
    \E p \in Procs :
        /\ proc[p].outcome = "rejected"
        /\ proc[p].exitCode = 0
        /\ rejectionFile # Null
        /\ rejectionFile[1].commit = proc[p].currentResults[1].commit
        /\ rejectionFile[1].score.num > 0
        /\ Len(rejectionFile[1].issues) = 2

\* ------------------------------------------------------------------------
\* Claims about failing writes (Spec)
\* ------------------------------------------------------------------------

\* The writes of the accepted path, in the order the claim gives them.
AcceptedOrder == <<"metrics", "history", "trends", "summary">>

\* The position of file f in the tuple files.
FileIndex(f) ==
    IF f = "metrics" THEN 1
    ELSE IF f = "history" THEN 2
    ELSE IF f = "trends" THEN 3
    ELSE IF f = "summary" THEN 4
    ELSE 5

\* s is an initial part of t.
IsPrefix(s, t) == Len(s) <= Len(t) /\ \A i \in DOMAIN s : s[i] = t[i]

\* C20: a run in which a write has failed is over at once with a non-zero
\* exit code: the failed write is not among its completed writes, the
\* completed writes followed by the failed one are an initial part of
\* Baseline, History, trends, Summary (or are the rejection record alone),
\* and the file of the failed write and of every later write is what it
\* was when the run started; no run writes a file twice.
C20_FailedWriteEndsRun ==
    \A p \in Procs :
        /\ \/ IsPrefix(proc[p].writes, AcceptedOrder)
           \/ proc[p].writes = <<"rejection">>
        /\ proc[p].failed # Null =>
              LET attempts == Append(proc[p].writes, proc[p].failed[1])
              IN /\ proc[p].pc = "done"
                 /\ proc[p].exitCode # 0
                 /\ proc[p].outcome = "error"
                 /\ \/ IsPrefix(attempts, AcceptedOrder)
                    \/ attempts = <<"rejection">>
                 /\ \A f \in {"metrics", "history", "trends", "summary",
                              "rejection"} :
                        f \notin {proc[p].writes[i] :
                                     i \in DOMAIN proc[p].writes}
                            => files[FileIndex(f)]
                                   = proc[p].before[FileIndex(f)]

\* A run whose write of trends.json failed has ended with exit code 1: it
\* has stored its Baseline and its History, and trends.json and
\* summary.json are those of an earlier run.
C20_Witness ==
    \E p \in Procs :
        /\ proc[p].failed = Some("trends")
        /\ proc[p].exitCode = 1
        /\ proc[p].writes = <<"metrics", "history">>
        /\ metricsFile # proc[p].before[1]
        /\ trendsFile # Null
        /\ trendsFile = proc[p].before[3]
        /\ summaryFile = proc[p].before[4]

\* ------------------------------------------------------------------------
\* Claims about the gate's issues and bounds (SpecGate)
\* ------------------------------------------------------------------------

\* The metrics in the order the claim fixes, and those of them that are
\* present in the snapshot r and fail their bound.
ClaimOrder == <<"performance", "coverage", "bundleSize">>
ClaimFailing(r) ==
    LET Fails(m) == m \in PresentMetrics(r) /\ ~ClaimMeetsBound(r, m)
    IN SelectSeq(ClaimOrder, Fails)
ClaimIssueText(m) ==
    IF m = "performance" THEN "Performance too low"
    ELSE IF m = "coverage" THEN "Coverage too low"
    ELSE "Bundle too large"

\* C21: the gate's issues are one string for each present metric that
\* fails its bound, in the order performance, coverage, bundleSize, and
\* nothing else: no string for a metric that passes, is missing or is an
\* error object.
C21_IssuesPerFailingMetric ==
    \A p \in Procs :
        Decided(p) =>
            LET r == proc[p].currentResults[1]
                issues == proc[p].acceptability[1].issues
                failing == ClaimFailing(r)
            IN /\ Len(issues) = Len(failing)
               /\ \A i \in DOMAIN failing :
                     /\ issues[i].text = ClaimIssueText(failing[i])
                     /\ failing[i] # "bundleSize" =>
                           issues[i].value = r[failing[i]].val

\* The gate has decided on a snapshot whose three metrics all fail, and on
\* none of them otherwise: its issues are the three strings in order.
C21_Witness ==
    \E p \in Procs :
        /\ Decided(p)
        /\ Len(proc[p].acceptability[1].issues) = 3
        /\ proc[p].acceptability[1].issues[1].text = "Performance too low"
        /\ proc[p].acceptability[1].issues[3].text = "Bundle too large"

\* ------------------------------------------------------------------------
\* Claims about overlapping executions (SpecConc)
\* ------------------------------------------------------------------------

\* The commits of the entries of the History h.
Commits(h) == {h[i].commit : i \in DOMAIN h}

\* The entry of the execution p is in history.json.
EntryStored(p) ==
    historyFile # Null
    /\ proc[p].currentResults[1].commit \in Commits(historyFile[1])

\* The executions p and q have each loaded the History before the other
\* stored it: neither found the other's entry.
LoadedBeforeStore(p, q) ==
    /\ proc[q].currentResults[1].commit \notin Commits(proc[p].history)
    /\ proc[p].currentResults[1].commit \notin Commits(proc[q].history)

\* C22: when two executions have both ended as accepted, history.json
\* holds the entry of exactly one of them if both loaded the History
\* before either stored it (the later store overwrites the earlier one),
\* and the entries of both otherwise, which is the case whenever one ran
\* after the other.
C22_LostUpdateOnlyOnOverlap ==
    \A p, q \in Procs :
        (p # q /\ EndedAccepted(p) /\ EndedAccepted(q)) =>
            IF LoadedBeforeStore(p, q)
            THEN EntryStored(p) # EntryStored(q)
            ELSE EntryStored(p) /\ EntryStored(q)

\* Two executions have both ended as accepted with exit code 0 and
\* history.json holds one entry: an update is lost.
C22_Witness ==
    \E p, q \in Procs :
        /\ p # q
        /\ EndedAccepted(p) /\ proc[p].exitCode = 0
        /\ EndedAccepted(q) /\ proc[q].exitCode = 0
        /\ Len(historyFile[1]) = 1
        /\ EntryStored(p)
        /\ ~EntryStored(q)

\* ------------------------------------------------------------------------
\* Claims about what is stored for an accepted snapshot (Spec)
\* ------------------------------------------------------------------------

C24_BundleBoundIsExact ==
    \A p \in Procs :
        (Decided(p) /\ proc[p].currentResults[1].bundleSize.kind = "num") =>
            LET r == proc[p].currentResults[1]
                issues == proc[p].acceptability[1].issues
                within == r.bundleSize.val <= 1000 * 1024
                flagged == \E i \in DOMAIN issues :
                               issues[i].text = "Bundle too large"
                earned == CheckBundleSize(r, GateStart).score
            IN /\ flagged <=> ~within
               /\ earned = (IF within THEN 30 ELSE 0)

\* C25: the History entry and the Summary metrics of an accepted run hold
\* null for a metric exactly when the snapshot has no number for it, and
\* the snapshot's number otherwise, 0 included; the number is then among
\* the values of the run's trend window.
C25_ZeroIsNotAbsent ==
    \A p \in Procs :
        EndedAccepted(p) =>
            LET r == proc[p].currentResults[1]
                h == proc[p].updatedHistory
                entry == h[Len(h)]
                written == summaryFile[1].metrics
            IN \A m \in MetricNames :
                   /\ entry[m] = Null <=> r[m].kind # "num"
                   /\ written[m] = Null <=> r[m].kind # "num"
                   /\ r[m].kind = "num" =>
                         /\ entry[m] = Some(r[m].val)
                         /\ written[m] = Some(r[m].val)
                         /\ Len(ClaimWindow(h, m)) >= 1

\* ------------------------------------------------------------------------
\* The lighter updateBaseline: one file, per metric the current value, a
\* trend word and a history of the last 10 values
\* ------------------------------------------------------------------------

MaxLightRuns == 11

\* The names of the metrics in metrics-baseline.json.
LightMetrics == {"bundleSize", "performance", "coverage"}

\* value || 0 on a number that may be missing.
OrZero(v) == IF v = Null THEN 0 ELSE v[1]

\* calculateTrend(previous, current): "stable" when either is missing or 0
\* or when the change is under 2% of previous, else the change's direction.
calculateTrend(previous, current) ==
    IF OrZero(previous) = 0 \/ OrZero(current) = 0 THEN "stable"
    ELSE LET diff == current[1] - previous[1]
         IN  IF Abs(diff) * 100 < 2 * Abs(previous[1]) THEN "stable"
             ELSE IF diff > 0 THEN "up" ELSE "down"

\* baseline.<metric> of the parsed file, the file missing read as {}.
LightOld(file, m) == IF file = Null THEN Null ELSE Some(file[1][m])

\* A metric's entry built with slice(-10): the history grows to 11.
MetricBaselineKeepsTen(old, value, t) ==
    [current |-> OrZero(value),
     trend |-> calculateTrend(IF old = Null THEN Null
                              ELSE Some(old[1].current), value),
     history |-> SliceLast(IF old = Null THEN <<>> ELSE old[1].history, 10)
                     \o <<[value |-> OrZero(value), timestamp |-> t]>>]

\* A metric's entry of newBaseline: { current, trend, history } from the
\* old entry (Null when the file has none), the value read and the time.
MetricBaseline(old, value, t) ==
    [current |-> OrZero(value),
     trend |-> calculateTrend(IF old = Null THEN Null
                              ELSE Some(old[1].current), value),
     history |-> SliceLast(IF old = Null THEN <<>> ELSE old[1].history, 9)
                     \o <<[value |-> OrZero(value), timestamp |-> t]>>]

\* newBaseline of updateBaseline().
newBaseline(file, results, t) ==
    [lastUpdated |-> t,
     bundleSize |-> MetricBaseline(LightOld(file, "bundleSize"),
                                   results.bundleSize, t),
     performance |-> MetricBaseline(LightOld(file, "performance"),
                                    results.performance, t),
     coverage |-> MetricBaseline(LightOld(file, "coverage"),
                                 results.coverage, t)]

\* reports/analysis-results.json as the lighter script reads it:
\* bundleSize?.size, performance?.scores?.performance and
\* coverage?.total?.lines?.pct, each a number or missing.
LightResults ==
    {[bundleSize |-> Some(2048), performance |-> Some(80),
      coverage |-> Some(80)],
     [bundleSize |-> Some(4096), performance |-> Some(90),
      coverage |-> Null]}

\* updateBaseline() without reports/analysis-results.json: it logs and
\* returns, nothing is written.
updateBaselineNoResults ==
    /\ now < MaxLightRuns
    /\ now' = now + 1
    /\ UNCHANGED <<files, proc>>

\* updateBaseline() with the results r: the file is replaced by newBaseline.
updateBaselineWrites ==
    /\ now < MaxLightRuns
    /\ now' = now + 1
    /\ \E r \in LightResults :
         metricsBaselineFile'
             = Some(newBaseline(metricsBaselineFile, r, now + 1))
    /\ UNCHANGED <<metricsFile, historyFile, trendsFile, summaryFile,
                   rejectionFile, damaged, proc>>

\* updateBaseline() whose writeFileSync throws: the catch returns null and
\* the file stays as it was.
updateBaselineFails ==
    /\ now < MaxLightRuns
    /\ now' = now + 1
    /\ UNCHANGED <<files, proc>>

updateBaseline ==
    \/ updateBaselineNoResults
    \/ updateBaselineWrites
    \/ updateBaselineFails

\* SpecLight: runs of the lighter updateBaseline, one after the other, on
\* an empty baselines directory.
NextLight == updateBaseline

SpecLight == Init /\ [][NextLight]_vars

\* C26: every run of the lighter updateBaseline that writes the file leaves
\* each metric's history with at most 10 entries: the entries it had, in the
\* order they were added and without the oldest one when there were already
\* 10, then the entry of this run, whose value is the metric's `current`.
C26_HistoryOfTen ==
    [][metricsBaselineFile' # metricsBaselineFile =>
         \A m \in LightMetrics :
            LET new == metricsBaselineFile'[1][m].history
                old == IF metricsBaselineFile = Null THEN <<>>
                       ELSE metricsBaselineFile[1][m].history
                n == Len(new)
            IN  /\ n <= 10
                /\ n = IF Len(old) < 10 THEN Len(old) + 1 ELSE 10
                /\ new[n].timestamp = now'
                /\ new[n].value = metricsBaselineFile'[1][m].current
                /\ \E r \in LightResults : new[n].value = OrZero(r[m])
                /\ \A i \in 1..(n - 1) :
                      /\ new[i] = old[i + Len(old) + 1 - n]
                      /\ new[i].timestamp < new[i + 1].timestamp]_vars

\* Eleven runs have written the file: the histories hold the entries of
\* runs 2 to 11, the entry of the first run is gone.
C26_Witness ==
    /\ metricsBaselineFile # Null
    /\ \A m \in LightMetrics :
          /\ Len(metricsBaselineFile[1][m].history) = 10
          /\ metricsBaselineFile[1][m].history[1].timestamp = 2
          /\ metricsBaselineFile[1][m].history[10].timestamp = 11

\* ------------------------------------------------------------------------
\* The gate as a rule over the metrics present (SpecGate)
\* ------------------------------------------------------------------------

\* C27: with performance, coverage and bundleSize all present the gate
\* accepts exactly when coverage meets its minimum and performance or the
\* bundle (its size in the rounded KB the code compares) meets its bound;
\* with one or two metrics present it accepts exactly when every metric
\* present meets its bound.
C27_GateAsRule ==
    \A p \in Procs :
        Decided(p) =>
            LET r == proc[p].currentResults[1]
                present == PresentMetrics(r)
            IN /\ present = MetricNames =>
                    (Accepts(p) <=>
                        /\ ClaimMeetsBound(r, "coverage")
                        /\ \/ ClaimMeetsBound(r, "performance")
                           \/ ClaimMeetsBound(r, "bundleSize"))
               /\ Cardinality(present) \in {1, 2} =>
                    (Accepts(p) <=>
                        \A m \in present : ClaimMeetsBound(r, m))

\* The gate has accepted a snapshot with all three metrics whose performance
\* alone fails.
C27_Witness ==
    \E p \in Procs :
        /\ Decided(p)
        /\ Accepts(p)
        /\ PresentMetrics(proc[p].currentResults[1]) = MetricNames
        /\ ~ClaimMeetsBound(proc[p].currentResults[1], "performance")
        /\ ClaimMeetsBound(proc[p].currentResults[1], "coverage")
        /\ ClaimMeetsBound(proc[p].currentResults[1], "bundleSize")

\* ------------------------------------------------------------------------
\* Claims about runs one after the other without write failures (SpecSerial)
\* ------------------------------------------------------------------------

\* No execution is under way.
Quiescent == \A p \in Procs : proc[p].pc \in {"idle", "done"}

\* C28: between runs, metrics.json exists exactly when history.json holds
\* an entry, and the last entry then has the commit, the branch and, as its
\* timestamp, the created time of the Baseline in metrics.json; a run that
\* ended as accepted has made the History one entry longer, or left it at
\* 50 if it held 50, and any other run has left history.json as it was.
C28_BaselineAndHistoryAgree ==
    Quiescent =>
        /\ metricsFile # Null
              <=> (historyFile # Null /\ Len(historyFile[1]) >= 1)
        /\ metricsFile # Null =>
              LET h == historyFile[1]
                  last == h[Len(h)]
              IN /\ last.commit = metricsFile[1].commit
                 /\ last.branch = metricsFile[1].branch
                 /\ last.timestamp = metricsFile[1].created
        /\ \A p \in Procs :
              proc[p].pc = "done" =>
                  IF proc[p].outcome = "accepted"
                  THEN LET old == IF proc[p].before[2] = Null THEN <<>>
                                  ELSE proc[p].before[2][1]
                       IN Len(historyFile[1])
                              = IF Len(old) < 50 THEN Len(old) + 1 ELSE 50
                  ELSE historyFile = proc[p].before[2]

\* A rejected run has ended on a store that two accepted runs had filled:
\* the History still has the two entries.
C28_Witness ==
    \E p \in Procs :
        /\ proc[p].pc = "done"
        /\ proc[p].outcome = "rejected"
        /\ historyFile # Null
        /\ Len(historyFile[1]) = 2
        /\ metricsFile # Null

\* ------------------------------------------------------------------------
\* Claims about what a run finds of the runs before it (Spec)
\* ------------------------------------------------------------------------

\* The execution p has written metrics.json.
WroteMetrics(p) ==
    "metrics" \in {proc[p].writes[i] : i \in DOMAIN proc[p].writes}

\* C29 as stated: a run that computes a delta has found the Summary of an
\* earlier accepted run, the Baseline it loaded is the snapshot of that run,
\* the most recent one to end as accepted, and each metric's delta has that
\* Baseline's value as its baseline.
C29_DeltaAgainstLastAccepted ==
    \A p \in Procs :
        (Prepared(p) /\ proc[p].delta # Null) =>
            /\ proc[p].before[4] # Null
            /\ proc[p].before[4][1].commit = proc[p].before[1][1].commit
            /\ \A m \in MetricNames :
                  proc[p].delta[1][m] # Null =>
                      proc[p].delta[1][m][1].baseline
                          = proc[p].before[1][1][m].val

\* C29 as amended: each metric's delta has as its baseline the value of that
\* metric in metrics.json as the run found it; metrics.json holds the
\* snapshot of the run that wrote it, a skipped or rejected run leaves it as
\* it was, and it is never older than the Summary: it is the snapshot of
\* the most recent run that ended as accepted or of a later run that stored
\* its Baseline and then failed on a write.
C29_DeltaAgainstStoredBaseline ==
    \A p \in Procs :
        /\ (Prepared(p) /\ proc[p].delta # Null) =>
              /\ proc[p].before[1] # Null
              /\ \A m \in MetricNames :
                    proc[p].delta[1][m] # Null =>
                        proc[p].delta[1][m][1].baseline
                            = proc[p].before[1][1][m].val
        /\ WroteMetrics(p) =>
              /\ metricsFile[1].commit = proc[p].currentResults[1].commit
              /\ \A m \in MetricNames :
                    metricsFile[1][m] = proc[p].currentResults[1][m]
        /\ proc[p].outcome \in {"skipped", "rejected"} =>
              metricsFile = proc[p].before[1]
        /\ (proc[p].pc # "idle" /\ proc[p].before[4] # Null) =>
              /\ proc[p].before[1] # Null
              /\ proc[p].before[1][1].commit >= proc[p].before[4][1].commit
              /\ proc[p].before[1][1].commit = proc[p].before[4][1].commit =>
                    \A m \in MetricNames :
                        proc[p].before[4][1].metrics[m]
                            = OrNull(proc[p].before[1][1][m])

\* An accepted run has a performance delta against a Baseline that an
\* earlier run stored before a rejected run: the Summary it found is that
\* of the run which stored the Baseline, and a rejection record was there.
C29_Witness ==
    \E p \in Procs :
        /\ proc[p].outcome = "accepted"
        /\ proc[p].delta # Null
        /\ proc[p].delta[1].performance # Null
        /\ proc[p].delta[1].performance[1].baseline
               # proc[p].delta[1].performance[1].current
        /\ proc[p].before[4] # Null
        /\ proc[p].before[5] # Null
        /\ proc[p].before[4][1].commit = proc[p].before[1][1].commit
        /\ proc[p].before[5][1].commit > proc[p].before[1][1].commit

\* C30: a run whose gate accepted leaves rejection.json as it found it and
\* a run whose gate rejected leaves summary.json as it found it; when a run
\* has ended as accepted summary.json is its Summary, when it has ended as
\* rejected rejection.json is its record, and a run that was skipped or
\* ended on an error leaves both files as they were.
C30_ArtifactsOutliveTheOtherKind ==
    \A p \in Procs :
        /\ (Decided(p) /\ Accepts(p)) => rejectionFile = proc[p].before[5]
        /\ (Decided(p) /\ ~Accepts(p)) => summaryFile = proc[p].before[4]
        /\ proc[p].outcome = "accepted" =>
              /\ summaryFile # Null
              /\ summaryFile[1].commit = proc[p].currentResults[1].commit
              /\ summaryFile[1].branch = proc[p].currentResults[1].branch
              /\ summaryFile[1].timestamp = now
        /\ proc[p].outcome = "rejected" =>
              /\ rejectionFile # Null
              /\ rejectionFile[1].commit = proc[p].currentResults[1].commit
              /\ rejectionFile[1].timestamp = now
        /\ proc[p].outcome \in {"skipped", "error"} =>
              /\ summaryFile = proc[p].before[4]
              /\ rejectionFile = proc[p].before[5]

\* An accepted run has ended on a store that held the Summary of an earlier
\* accepted run and the record of a rejected run after it: both files are
\* there, the record unchanged and now the older of the two.
C30_Witness ==
    \E p \in Procs :
        /\ proc[p].outcome = "accepted"
        /\ proc[p].before[4] # Null
        /\ proc[p].before[5] # Null
        /\ proc[p].before[5][1].timestamp > proc[p].before[4][1].timestamp
        /\ rejectionFile = proc[p].before[5]
        /\ summaryFile[1].timestamp > rejectionFile[1].timestamp

=============================================================================
